---- MODULE Spec2Model ----
(***************************************************************************)
(* proxy2vpn: the compose-file store (ComposeManager), the service model   *)
(* (VPNService), the fleet planner (FleetManager.plan_deployment) and the  *)
(* fleet deployment (FleetManager.deploy_fleet).                           *)
(*                                                                         *)
(* Text is modelled as a sequence of one-character strings, so that        *)
(* formatting, parsing and sanitizing are computed as the code computes    *)
(* them.                                                                   *)
(***************************************************************************)
EXTENDS Integers, Sequences, FiniteSets, TLC

VARIABLES
    data,           \* ComposeManager.data: the document held in memory
    disk,           \* the compose file on disk
    hashfn,         \* hash() of this process on names (PYTHONHASHSEED)
    last,           \* the last call: its argument, how it ended, its result
    saveFails,      \* number of save() calls that failed so far
    cfg,            \* FleetConfig given to plan_deployment
    catalog,        \* ServerManager.list_cities: country -> cities or an error
    ppc,            \* position of plan_deployment
    ci,             \* index of the country loop of plan_deployment
    all_cities,     \* plan_deployment: the (country, city) pairs
    alloc,          \* FleetManager.profile_allocator
    plan,           \* the DeploymentPlan (built by the planner, run by deploy)
    current_port,   \* plan_deployment: the next port
    dpc,            \* position of deploy_fleet
    parallel,       \* deploy_fleet(parallel=...)
    di,             \* index of the service loop of deploy_fleet
    deployed,       \* deploy_fleet: counter
    failed,         \* deploy_fleet: counter
    errors,         \* deploy_fleet: the error messages
    addOk,          \* per plan entry handled so far: did add_service return
    taskpc,         \* per start task: its position
    sem,            \* permits left of asyncio.Semaphore(5)
    runtime,        \* the calls the container runtime has received
    result,         \* the DeploymentResult returned by deploy_fleet
    hpc,            \* position of HTTPClient.request
    attempts,       \* HTTPClientConfig.retry.attempts
    attempt,        \* request: the loop variable
    sent,           \* request: how each send ended, in order
    response        \* request: the value it returned

storeVars  == <<data, disk, hashfn, last, saveFails>>
planVars   == <<cfg, catalog, ppc, ci, all_cities, alloc, plan, current_port>>
deployVars == <<dpc, parallel, di, deployed, failed, errors, addOk, taskpc,
                sem, runtime, result>>
httpVars   == <<hpc, attempts, attempt, sent, response>>
vars == <<data, disk, hashfn, last, saveFails, cfg, catalog, ppc, ci,
          all_cities, alloc, plan, current_port, dpc, parallel, di, deployed,
          failed, errors, addOk, taskpc, sem, runtime, result, hpc, attempts,
          attempt, sent, response>>

----------------------------------------------------------------------------
(* Text helpers                                                            *)

UpperChars == <<"A","B","C","D","E","F","G","H","I","J","K","L","M",
                "N","O","P","Q","R","S","T","U","V","W","X","Y","Z">>
LowerChars == <<"a","b","c","d","e","f","g","h","i","j","k","l","m",
                "n","o","p","q","r","s","t","u","v","w","x","y","z">>
DigitChars == <<"0","1","2","3","4","5","6","7","8","9">>

Range(s) == {s[i] : i \in 1..Len(s)}

\* str.lower() of one character
LowerChar(c) ==
    IF c \in Range(UpperChars)
    THEN LowerChars[CHOOSE i \in 1..26 : UpperChars[i] = c]
    ELSE c

\* str.lower()
Lower(s) == [i \in 1..Len(s) |-> LowerChar(s[i])]

\* str.replace(" ", "-")
ReplaceSpaces(s) == [i \in 1..Len(s) |-> IF s[i] = " " THEN "-" ELSE s[i]]

\* the characters of the class [A-Za-z0-9_-]
NameChars == Range(UpperChars) \cup Range(LowerChars) \cup Range(DigitChars)
             \cup {"_", "-"}

\* re.sub(r"[^A-Za-z0-9_-]", "-", name)
SubInvalid(s) == [i \in 1..Len(s) |-> IF s[i] \in NameChars THEN s[i] ELSE "-"]

\* re.sub(r"-+", "-", s): every run of dashes becomes one dash
RECURSIVE CollapseDashes(_)
CollapseDashes(s) ==
    IF Len(s) <= 1 THEN s
    ELSE IF s[1] = "-" /\ s[2] = "-" THEN CollapseDashes(Tail(s))
    ELSE <<s[1]>> \o CollapseDashes(Tail(s))

\* str.strip("-")
RECURSIVE StripLeft(_)
StripLeft(s) ==
    IF s # <<>> /\ s[1] = "-" THEN StripLeft(Tail(s)) ELSE s

RECURSIVE StripRight(_)
StripRight(s) ==
    IF s # <<>> /\ s[Len(s)] = "-" THEN StripRight(SubSeq(s, 1, Len(s) - 1))
    ELSE s

\* a strip of the leading dashes only
StripDashes_left(s) == StripLeft(s)

StripDashes(s) == StripRight(StripLeft(s))

\* a sanitizer that strips the dashes before it replaces the characters
sanitize_service_name_strip_first(name) ==
    Lower(CollapseDashes(SubInvalid(StripDashes(name))))

\* FleetManager._sanitize_service_name
sanitize_service_name(name) ==
    Lower(StripDashes(CollapseDashes(SubInvalid(name))))

\* str(n) for n >= 0
RECURSIVE IntToStr(_)
IntToStr(n) ==
    IF n < 10 THEN <<DigitChars[n + 1]>>
    ELSE IntToStr(n \div 10) \o <<DigitChars[(n % 10) + 1]>>

DigitValue(c) == (CHOOSE i \in 1..10 : DigitChars[i] = c) - 1

\* int(s) for a string of decimal digits
RECURSIVE StrToInt(_)
StrToInt(s) ==
    IF Len(s) = 1 THEN DigitValue(s[1])
    ELSE 10 * StrToInt(SubSeq(s, 1, Len(s) - 1)) + DigitValue(s[Len(s)])

\* position of the first sep in s, 0 when there is none
FirstIndex(s, sep) ==
    IF sep \in Range(s)
    THEN CHOOSE i \in 1..Len(s) : s[i] = sep /\ \A j \in 1..(i - 1) : s[j] # sep
    ELSE 0

\* str.split(sep): the list of the parts
RECURSIVE Split(_, _)
Split(s, sep) ==
    IF FirstIndex(s, sep) = 0 THEN <<s>>
    ELSE <<SubSeq(s, 1, FirstIndex(s, sep) - 1)>>
         \o Split(SubSeq(s, FirstIndex(s, sep) + 1, Len(s)), sep)

\* str.split(sep, 1): the text before and after the first sep
SplitOnce(s, sep) ==
    <<SubSeq(s, 1, FirstIndex(s, sep) - 1),
      SubSeq(s, FirstIndex(s, sep) + 1, Len(s))>>

----------------------------------------------------------------------------
(* Bounds of the model                                                     *)

\* how many save() calls may fail in one behaviour
MaxSaveFailures == 1

\* service names of the store and of the plans that deploy runs
StoreNames == {<<"a">>, <<"b">>}

\* proxy ports given to services
Ports == {20000, 20001}

\* the profiles of the initial document, and a profile name that it lacks
acc1 == <<"a","c","c","1">>
acc2 == <<"a","c","c","2">>
acc9 == <<"a","c","c","9">>
StoredProfiles == {acc1, acc2}

\* values of hash(name): they differ from one process to the next, so the
\* process draws them at its start; 0 and 2000 fall into the same slot
HashValues == {0, 2000, -1}

\* the hash functions a process may have on the names of S: two names have
\* different hashes
Hashes(S) ==
    {h \in [S -> HashValues] : \A m, n \in S : m # n => h[m] # h[n]}

prov == <<"p","r","o","v">>

----------------------------------------------------------------------------
(* models.py: VPNService                                                   *)

DEFAULT_CONTROL_PORT_START == 18000
CONTROL_PORT_RANGE == 2000

PROXY_MAPPING   == <<":","8","8","8","8","/","t","c","p">>
CONTROL_MAPPING == <<":","8","0","0","0","/","t","c","p">>
PROXY_CONTAINER_PORT   == <<"8","8","8","8">>
CONTROL_CONTAINER_PORT == <<"8","0","0","0">>
VPN_SERVICE_PROVIDER == <<"V","P","N","_","S","E","R","V","I","C","E","_","P","R","O","V","I","D","E","R">>
SERVER_CITIES == <<"S","E","R","V","E","R","_","C","I","T","I","E","S">>
VPN_TYPE == <<"v","p","n">>

\* validators.sanitize_name, applied to every name by __post_init__
sanitize_name(name) == sanitize_service_name(name)

\* validators.validate_port: a valid port is returned as it is
validate_port(port) == port

\* VPNService._calculate_control_port
calculate_control_port(name) ==
    DEFAULT_CONTROL_PORT_START + (hashfn[name] % CONTROL_PORT_RANGE)

\* VPNService(...) followed by __post_init__
VPNService(name, port, provider, profile, location, environment, labels, control_port) ==
    [name         |-> sanitize_name(name),
     port         |-> validate_port(port),
     provider     |-> provider,
     profile      |-> profile,
     location     |-> location,
     environment  |-> environment,
     labels       |-> labels,
     control_port |-> IF control_port = 0
                      THEN calculate_control_port(sanitize_name(name))
                      ELSE validate_port(control_port)]

\* dict.setdefault(k, v) and dict.get(k, default) on a dict held as a function
SetDefault(d, k, v) == IF k \in DOMAIN d THEN d ELSE d @@ (k :> v)
Get(d, k, default) == IF k \in DOMAIN d THEN d[k] ELSE default

\* a dict with text keys, held as the sequence of its <<key, value>> items
RECURSIVE ItemsGet(_, _, _)
ItemsGet(items, k, default) ==
    IF items = <<>> THEN default
    ELSE IF items[Len(items)][1] = k THEN items[Len(items)][2]
    ELSE ItemsGet(SubSeq(items, 1, Len(items) - 1), k, default)

ItemsSet(items, k, v) ==
    IF \E i \in 1..Len(items) : items[i][1] = k
    THEN [i \in 1..Len(items) |-> IF items[i][1] = k THEN <<k, v>> ELSE items[i]]
    ELSE Append(items, <<k, v>>)

\* to_compose_service that writes the two host ports the wrong way round
to_compose_service_swapped(self) ==
    [ports       |-> <<IntToStr(self.control_port) \o PROXY_MAPPING,
                       IntToStr(self.port) \o CONTROL_MAPPING>>,
     environment |-> [i \in 1..Len(self.environment) |->
                        self.environment[i][1] \o <<"=">> \o self.environment[i][2]],
     labels      |-> SetDefault(
                        SetDefault(self.labels, "vpn.port", IntToStr(self.port)),
                        "vpn.control_port", IntToStr(self.control_port))]

\* VPNService.to_compose_service
to_compose_service(self) ==
    [ports       |-> <<IntToStr(self.port) \o PROXY_MAPPING,
                       IntToStr(self.control_port) \o CONTROL_MAPPING>>,
     environment |-> [i \in 1..Len(self.environment) |->
                        self.environment[i][1] \o <<"=">> \o self.environment[i][2]],
     labels      |-> SetDefault(
                        SetDefault(self.labels, "vpn.port", IntToStr(self.port)),
                        "vpn.control_port", IntToStr(self.control_port))]

\* from_compose_service: host port and container port of one port mapping
MappingHost(mapping) ==
    LET parts == Split(mapping, ":")
    IN  IF Len(parts) >= 3 THEN StrToInt(parts[2])
        ELSE IF Len(parts) = 2 THEN StrToInt(parts[1])
        ELSE StrToInt(mapping)

MappingContainerPort(mapping) ==
    LET parts == Split(mapping, ":")
        container == IF Len(parts) >= 3 THEN parts[3]
                     ELSE IF Len(parts) = 2 THEN parts[2]
                     ELSE <<>>
    IN  Split(container, "/")[1]

\* from_compose_service: the loop over the port mappings; pp is
\* <<host_port, control_port>>
RECURSIVE ScanPorts(_, _)
ScanPorts(ports, pp) ==
    IF ports = <<>> THEN pp
    ELSE LET host == MappingHost(Head(ports))
             cport == MappingContainerPort(Head(ports))
         IN  IF cport = PROXY_CONTAINER_PORT /\ pp[1] = 0
             THEN ScanPorts(Tail(ports), <<host, pp[2]>>)
             ELSE IF cport = CONTROL_CONTAINER_PORT /\ pp[2] = 0
             THEN ScanPorts(Tail(ports), <<pp[1], host>>)
             ELSE ScanPorts(Tail(ports), pp)

\* from_compose_service: the loop over the environment list
RECURSIVE ScanEnv(_, _)
ScanEnv(env_list, env_dict) ==
    IF env_list = <<>> THEN env_dict
    ELSE IF "=" \in Range(Head(env_list))
    THEN ScanEnv(Tail(env_list),
                 ItemsSet(env_dict, SplitOnce(Head(env_list), "=")[1],
                          SplitOnce(Head(env_list), "=")[2]))
    ELSE ScanEnv(Tail(env_list), env_dict)

\* VPNService.from_compose_service
from_compose_service(name, service_def) ==
    LET pp == ScanPorts(service_def.ports, <<0, 0>>)
        env_dict == ScanEnv(service_def.environment, <<>>)
        labels == service_def.labels
    IN  VPNService(name, pp[1],
                   Get(labels, "vpn.provider",
                       ItemsGet(env_dict, VPN_SERVICE_PROVIDER, <<>>)),
                   Get(labels, "vpn.profile", <<>>),
                   Get(labels, "vpn.location",
                       ItemsGet(env_dict, SERVER_CITIES, <<>>)),
                   env_dict, labels, pp[2])

----------------------------------------------------------------------------
(* compose_manager.py: ComposeManager                                      *)

\* outcomes of one save(): the dump succeeds, open() fails, or the dump
\* fails after open() has truncated the file
SaveOutcomes == {"ok", "open_fails", "write_fails"}

\* ComposeManager.save: the file after it, and the exception it raises
save(d, dk, outcome) ==
    CASE outcome = "ok" ->
           [disk |-> [state |-> "ok", doc |-> d], exc |-> "none"]
      [] outcome = "open_fails" ->
           [disk |-> dk, exc |-> "OSError"]
      [] outcome = "write_fails" ->
           [disk |-> [state |-> "partial", doc |-> d], exc |-> "OSError"]

\* add_service without the test for a name that is already there
add_service_overwrite(d, dk, service, outcome) ==
    LET d2 == [d EXCEPT !.services =
                  [n \in (DOMAIN @) \cup {service.name} |->
                     IF n = service.name THEN to_compose_service(service)
                     ELSE @[n]]]
    IN  [data |-> d2,
         disk |-> save(d2, dk, outcome).disk,
         exc  |-> save(d2, dk, outcome).exc]

\* ComposeManager.add_service: document, file and exception after the call
add_service(d, dk, service, outcome) ==
    IF service.name \in DOMAIN d.services
    THEN [data |-> d, disk |-> dk, exc |-> "ValueError"]
    ELSE LET d2 == [d EXCEPT !.services =
                        @ @@ (service.name :> to_compose_service(service))]
         IN  [data |-> d2,
              disk |-> save(d2, dk, outcome).disk,
              exc  |-> save(d2, dk, outcome).exc]

\* remove_service that deletes every service
remove_service_clear(d, dk, name, outcome) ==
    IF name \notin DOMAIN d.services
    THEN [data |-> d, disk |-> dk, exc |-> "KeyError"]
    ELSE LET d2 == [d EXCEPT !.services = <<>>]
         IN  [data |-> d2,
              disk |-> save(d2, dk, outcome).disk,
              exc  |-> save(d2, dk, outcome).exc]

\* ComposeManager.remove_service
remove_service(d, dk, name, outcome) ==
    IF name \notin DOMAIN d.services
    THEN [data |-> d, disk |-> dk, exc |-> "KeyError"]
    ELSE LET d2 == [d EXCEPT !.services =
                        [n \in (DOMAIN @) \ {name} |-> @[n]]]
         IN  [data |-> d2,
              disk |-> save(d2, dk, outcome).disk,
              exc  |-> save(d2, dk, outcome).exc]

\* the paths a manager is constructed on: the compose file, and a path at
\* which there is no file
COMPOSE_FILE == "compose.yml"
NO_FILE == "missing.yml"
Paths == {COMPOSE_FILE, NO_FILE}

\* ComposeManager._load: the results that open() and yaml.load() may have.
\* open() raises when there is no file; a file that a failed dump left cut
\* short does not parse, or parses to the part of the services that was
\* written
load(dk, path) ==
    IF path = NO_FILE
    THEN {[exc |-> "FileNotFoundError", data |-> <<>>]}
    ELSE IF dk.state = "ok"
    THEN {[exc |-> "none", data |-> dk.doc]}
    ELSE {[exc |-> "YAMLError", data |-> <<>>]}
         \cup {[exc |-> "none",
                data |-> [dk.doc EXCEPT !.services = [n \in K |-> @[n]]]] :
                  K \in SUBSET (DOMAIN dk.doc.services)}

\* ComposeManager.list_services (as a set: the order of the dict is left out)
list_services(d) ==
    {from_compose_service(n, d.services[n]) : n \in DOMAIN d.services}

\* ComposeManager.get_service: found, and the service
get_service(d, name) ==
    IF name \notin DOMAIN d.services
    THEN [exc |-> "KeyError"]
    ELSE [exc |-> "none", service |-> from_compose_service(name, d.services[name])]

\* ComposeManager.get_profile: whether the profile exists
get_profile(d, name) ==
    IF name \in d.profiles THEN [exc |-> "none"] ELSE [exc |-> "KeyError"]

\* the outcomes a save() may have in this state
AllowedOutcomes ==
    IF saveFails < MaxSaveFailures THEN SaveOutcomes ELSE {"ok"}

\* the service deploy_fleet builds for a plan entry
ServiceOf(service_plan) ==
    VPNService(service_plan.name, service_plan.port, service_plan.provider,
               service_plan.profile, service_plan.location,
               << <<VPN_SERVICE_PROVIDER, service_plan.provider>>,
                  <<SERVER_CITIES, service_plan.location>> >>,
               [k \in {"vpn.type", "vpn.port", "vpn.provider", "vpn.profile",
                       "vpn.location"} |->
                  CASE k = "vpn.type" -> VPN_TYPE
                    [] k = "vpn.port" -> IntToStr(service_plan.port)
                    [] k = "vpn.provider" -> service_plan.provider
                    [] k = "vpn.profile" -> service_plan.profile
                    [] k = "vpn.location" -> service_plan.location],
               0)

----------------------------------------------------------------------------
(* Profile allocator (profile_allocator.py)                                *)

\* ProfileAllocator(): the allocator knows the services it is given; it has
\* no slots before setup_profiles
ProfileAllocator(services) == [existing |-> services, slots |-> <<>>]

\* the names of the services of a service list that are on a profile
OnProfile(services, profile) ==
    {services[i][2] : i \in {j \in 1..Len(services) : services[j][1] = profile}}

\* the names of a capacity mapping, which is held as the sequence of its
\* <<profile, capacity>> items, in the order of declaration
ProfileNames(capacities) == {capacities[i][1] : i \in 1..Len(capacities)}

CapacityOf(capacities, profile) ==
    capacities[CHOOSE i \in 1..Len(capacities) : capacities[i][1] = profile][2]

\* ProfileAllocator.setup_profiles
setup_profiles(a, capacities) ==
    IF \E i \in 1..Len(capacities) :
          Cardinality(OnProfile(a.existing, capacities[i][1])) > capacities[i][2]
    THEN [exc |-> "OverAllocatedError", alloc |-> a]
    ELSE [exc |-> "none",
          alloc |-> [a EXCEPT !.slots =
             [p \in ProfileNames(capacities) |->
                [capacity  |-> CapacityOf(capacities, p),
                 remaining |-> CapacityOf(capacities, p)
                               - Cardinality(OnProfile(a.existing, p)),
                 services  |-> OnProfile(a.existing, p)]]]]

\* ProfileAllocator.get_next_available: the index in the capacity mapping of
\* the first profile with a free slot, 0 for None
get_next_available(a, capacities) ==
    LET free == {i \in 1..Len(capacities) :
                    a.slots[capacities[i][1]].remaining > 0}
    IN  IF free = {} THEN 0
        ELSE CHOOSE i \in free : \A j \in free : i <= j

\* an allocator that takes a slot on every call
allocate_slot_always(a, profile_name, service_name) ==
    [a EXCEPT !.slots[profile_name].remaining = @ - 1,
              !.slots[profile_name].services = @ \cup {service_name}]

\* ProfileAllocator.allocate_slot
allocate_slot(a, profile_name, service_name) ==
    IF service_name \in a.slots[profile_name].services
    THEN a
    ELSE [a EXCEPT !.slots[profile_name].remaining = @ - 1,
                   !.slots[profile_name].services = @ \cup {service_name}]

\* ProfileAllocator.get_allocation_status: for every profile the allocator
\* knows, its capacity, its remaining slots and the services on it
get_allocation_status(a) == a.slots

----------------------------------------------------------------------------
(* Initial values                                                          *)

\* the document written by create_initial_compose and add_profile
InitialDoc == [services |-> <<>>, profiles |-> StoredProfiles]

\* RetryPolicy.attempts when no policy is given
DEFAULT_RETRY_ATTEMPTS == 3

\* no request is under way
HttpIdle ==
    /\ hpc = "idle"
    /\ attempts = DEFAULT_RETRY_ATTEMPTS
    /\ attempt = 0
    /\ sent = <<>>
    /\ response = "None"

NoConfig == [countries |-> <<>>, profiles |-> <<>>, port_start |-> 0]

StoreInit ==
    /\ data = InitialDoc
    /\ disk = [state |-> "ok", doc |-> InitialDoc]
    /\ hashfn \in Hashes(StoreNames)
    /\ last = [op |-> "none", name |-> <<>>, exc |-> "none"]
    /\ saveFails = 0
    /\ HttpIdle

PlanIdle ==
    /\ cfg = NoConfig
    /\ catalog = <<>>
    /\ ppc = "idle"
    /\ ci = 0
    /\ all_cities = <<>>
    /\ alloc = <<>>
    /\ plan = <<>>
    /\ current_port = 0

DeployIdle ==
    /\ dpc = "idle"
    /\ parallel = FALSE
    /\ di = 0
    /\ deployed = 0
    /\ failed = 0
    /\ errors = <<>>
    /\ addOk = <<>>
    /\ taskpc = <<>>
    /\ sem = 0
    /\ runtime = {}
    /\ result = <<>>

----------------------------------------------------------------------------
(* The store under a sequence of add_service and remove_service calls      *)

LA == <<"L","A">>

\* a call of add_service with a service built as the fleet and the CLI build it
AddService(name, port, profile, outcome) ==
    LET service == ServiceOf([name |-> name, profile |-> profile,
                              location |-> LA, country |-> LA,
                              port |-> port, provider |-> prov])
        r == add_service(data, disk, service, outcome)
    IN  /\ outcome \in AllowedOutcomes
        /\ data' = r.data
        /\ disk' = r.disk
        /\ last' = IF r.exc = "none"
                   THEN [op |-> "add_service", name |-> service.name,
                         exc |-> r.exc, service |-> service]
                   ELSE [op |-> "add_service", name |-> service.name,
                         exc |-> r.exc]
        /\ saveFails' = IF r.exc = "OSError" THEN saveFails + 1 ELSE saveFails
        /\ UNCHANGED <<hashfn, httpVars, planVars, deployVars>>

\* a call of remove_service
RemoveService(name, outcome) ==
    LET r == remove_service(data, disk, name, outcome)
    IN  /\ outcome \in AllowedOutcomes
        /\ data' = r.data
        /\ disk' = r.disk
        /\ last' = [op |-> "remove_service", name |-> name, exc |-> r.exc]
        /\ saveFails' = IF r.exc = "OSError" THEN saveFails + 1 ELSE saveFails
        /\ UNCHANGED <<hashfn, httpVars, planVars, deployVars>>

Init == StoreInit /\ PlanIdle /\ DeployIdle

Next ==
    \/ \E name \in StoreNames, port \in Ports, profile \in {acc1, acc9},
          outcome \in SaveOutcomes : AddService(name, port, profile, outcome)
    \/ \E name \in StoreNames, outcome \in SaveOutcomes :
          RemoveService(name, outcome)

Spec == Init /\ [][Next]_vars

----------------------------------------------------------------------------
(* The store under add_service, remove_service, loads and status calls     *)

\* ComposeManager(compose_path): __init__ loads the file. When it raises
\* there is no new manager and the one at hand stays.
NewComposeManager(path) ==
    \E r \in load(disk, path) :
        /\ data' = IF r.exc = "none" THEN r.data ELSE data
        /\ last' = [op |-> "load", name |-> path, exc |-> r.exc]
        /\ UNCHANGED <<disk, hashfn, httpVars, saveFails, planVars, deployVars>>

\* FleetManager.get_fleet_status (the groups hold the names of the services)
get_fleet_status(d, a) ==
    [total_services       |-> Cardinality(list_services(d)),
     services_by_provider |->
        [p \in {s.provider : s \in list_services(d)} |->
            {s.name : s \in {t \in list_services(d) : t.provider = p}}],
     profile_allocation   |-> get_allocation_status(a)]

\* FleetManager(compose_file_path).get_fleet_status(): __init__ loads the
\* file into a manager of its own and constructs ProfileAllocator()
GetFleetStatus ==
    \E r \in load(disk, COMPOSE_FILE) :
        /\ last' = IF r.exc = "none"
                   THEN [op |-> "get_fleet_status", name |-> COMPOSE_FILE,
                         exc |-> "none",
                         ret |-> get_fleet_status(r.data, ProfileAllocator(<<>>))]
                   ELSE [op |-> "get_fleet_status", name |-> COMPOSE_FILE,
                         exc |-> r.exc]
        /\ UNCHANGED <<data, disk, hashfn, httpVars, saveFails, planVars, deployVars>>

LoadNext ==
    \/ \E name \in StoreNames, port \in Ports, profile \in StoredProfiles,
          outcome \in {"ok", "write_fails"} :
             AddService(name, port, profile, outcome)
    \/ \E name \in StoreNames, outcome \in {"ok", "write_fails"} :
          RemoveService(name, outcome)
    \/ \E path \in Paths : NewComposeManager(path)
    \/ GetFleetStatus

SpecLoad == Init /\ [][LoadNext]_vars

----------------------------------------------------------------------------
(* The store over several runs of the program                              *)

\* the program is started again: the new interpreter has its own hash() of
\* the names, and ComposeManager(COMPOSE_FILE) loads the file
NewProcess ==
    \E h \in Hashes(StoreNames), r \in load(disk, COMPOSE_FILE) :
        /\ hashfn' = h
        /\ data' = IF r.exc = "none" THEN r.data ELSE data
        /\ last' = [op |-> "load", name |-> COMPOSE_FILE, exc |-> r.exc]
        /\ UNCHANGED <<disk, httpVars, saveFails, planVars, deployVars>>

RunsNext ==
    \/ \E name \in StoreNames : AddService(name, 20000, acc1, "ok")
    \/ NewProcess

SpecRuns == Init /\ [][RunsNext]_vars

\* C35: a VPNService built without a control_port gets the control port
\* that every other VPNService of that name got, in this run of the program
\* or in an earlier one, and the port is in the reserved range: the control
\* port of every stored service, all of them built without a control_port,
\* is the one its name gives now.
C35_ControlPortOfName ==
    \A s \in list_services(data) :
        /\ s.control_port = calculate_control_port(s.name)
        /\ s.control_port >= DEFAULT_CONTROL_PORT_START
        /\ s.control_port < DEFAULT_CONTROL_PORT_START + CONTROL_PORT_RANGE

----------------------------------------------------------------------------
(* Claims about loading                                                    *)

\* add_service has just returned
JustAdded == last.op = "add_service" /\ last.exc = "none"

\* the labels of a stored service: its own, and the two ports where it has
\* no label for them
StoredLabels(s) ==
    SetDefault(SetDefault(s.labels, "vpn.port", IntToStr(s.port)),
               "vpn.control_port", IntToStr(s.control_port))

ServicesOn(d, profile) == {s \in list_services(d) : s.profile = profile}

\* C17: get_fleet_status on a newly constructed FleetManager reports the
\* number of stored services, and for every profile that stored services
\* reference the number of them.
C17_StatusFromStore ==
    (last.op = "get_fleet_status" /\ last.exc = "none" /\ disk.state = "ok")
    => /\ last.ret.total_services = Cardinality(DOMAIN disk.doc.services)
       /\ \A p \in {s.profile : s \in list_services(disk.doc)} :
             /\ p \in DOMAIN last.ret.profile_allocation
             /\ Cardinality(last.ret.profile_allocation[p].services)
                   = Cardinality(ServicesOn(disk.doc, p))

\* C19: constructing the store on a path at which there is no file is no
\* error and gives a store without services and without profiles.
C19_MissingFileLoads ==
    (last.op = "load" /\ last.name = NO_FILE)
    => /\ last.exc = "none"
       /\ data = [services |-> <<>>, profiles |-> {}]

----------------------------------------------------------------------------
(* Claims about the store                                                  *)

\* C2: add_service called with a service whose name is already in the store
\* fails with the duplicate-name error (ValueError), and the document in
\* memory and the file on disk are the same before and after the failed call.
C2_DuplicateNameFails ==
    [][ (/\ last' # last
         /\ last'.op = "add_service"
         /\ last'.name \in DOMAIN data.services)
        => (last'.exc = "ValueError" /\ data' = data /\ disk' = disk) ]_vars

\* a call of add_service has just failed with the duplicate-name error
C2_Witness ==
    /\ last.op = "add_service"
    /\ last.exc = "ValueError"
    /\ last.name \in DOMAIN data.services

\* C3: no two stored services have the same proxy port.
C3_PortsUnique ==
    \A s, t \in list_services(data) : s.name # t.name => s.port # t.port

\* C4: no two stored services have the same control port.
C4_ControlPortsUnique ==
    \A s, t \in list_services(data) :
        s.name # t.name => s.control_port # t.control_port

\* C14: a store write replaces the file as a whole: after every step the
\* file is the file before the step or the complete new document, never a
\* document cut short.
C14_AtomicPersistence ==
    [][ disk' = disk \/ disk' = [state |-> "ok", doc |-> data'] ]_vars

\* C16: every stored service references a profile that exists.
C16_ProfilesExist ==
    \A s \in list_services(data) : s.profile \in data.profiles

\* C18: remove_service of a name that is not in the store fails with the
\* not-found error (KeyError) and changes neither the document nor the file;
\* for a name that is in the store it deletes that service and no other,
\* leaves the profiles as they are, and when save() returns the file holds
\* the new document.
C18_RemoveService ==
    [][ (last' # last /\ last'.op = "remove_service")
        => IF last'.name \notin DOMAIN data.services
           THEN /\ last'.exc = "KeyError"
                /\ data' = data
                /\ disk' = disk
           ELSE /\ last'.exc # "KeyError"
                /\ DOMAIN data'.services
                      = (DOMAIN data.services) \ {last'.name}
                /\ \A n \in DOMAIN data'.services :
                      data'.services[n] = data.services[n]
                /\ data'.profiles = data.profiles
                /\ last'.exc = "none"
                      => disk' = [state |-> "ok", doc |-> data'] ]_vars

\* a service has just been removed and persisted, and another one is left
C18_Witness ==
    /\ last.op = "remove_service"
    /\ last.exc = "none"
    /\ DOMAIN data.services # {}
    /\ last.name \notin DOMAIN data.services
    /\ disk = [state |-> "ok", doc |-> data]

\* C38: after every add_service and remove_service call, one whose save
\* failed included, the services that the manager holds in memory are the
\* services that a reader finds in the file.
C38_MemoryMatchesFile ==
    last.op \in {"add_service", "remove_service"}
    => \A r \in load(disk, COMPOSE_FILE) :
          /\ r.exc = "none"
          /\ DOMAIN r.data.services = DOMAIN data.services

----------------------------------------------------------------------------
(* cli.py: profile delete                                                  *)

\* the services of a document that reference a profile
ReferencedBy(d, profile) ==
    {n \in DOMAIN d.services :
        from_compose_service(n, d.services[n]).profile = profile}

\* remove_profile that deletes a profile whether or not services reference it
remove_profile_force(d, dk, name, outcome) ==
    IF name \notin d.profiles
    THEN [data |-> d, disk |-> dk, exc |-> "KeyError"]
    ELSE LET d2 == [d EXCEPT !.profiles = @ \ {name}]
         IN  [data |-> d2,
              disk |-> save(d2, dk, outcome).disk,
              exc  |-> save(d2, dk, outcome).exc]

\* ComposeManager.remove_profile: it fails when the profile is absent, it
\* fails and changes nothing when a service references the profile, and
\* otherwise it deletes the profile and saves
remove_profile(d, dk, name, outcome) ==
    IF name \notin d.profiles
    THEN [data |-> d, disk |-> dk, exc |-> "KeyError"]
    ELSE IF ReferencedBy(d, name) # {}
    THEN [data |-> d, disk |-> dk, exc |-> "ValueError"]
    ELSE LET d2 == [d EXCEPT !.profiles = @ \ {name}]
         IN  [data |-> d2,
              disk |-> save(d2, dk, outcome).disk,
              exc  |-> save(d2, dk, outcome).exc]

\* profile_delete that calls the remove_profile without the reference check
ProfileDelete_force(name, outcome) ==
    \E l \in load(disk, COMPOSE_FILE) :
        /\ outcome \in AllowedOutcomes
        /\ l.exc = "none"
        /\ LET r == remove_profile_force(l.data, disk, name, outcome)
           IN  /\ data' = r.data
               /\ disk' = r.disk
               /\ last' = [op |-> "remove_profile", name |-> name,
                           exc |-> r.exc, manager |-> l.data]
               /\ saveFails' = IF r.exc = "OSError"
                               THEN saveFails + 1 ELSE saveFails
        /\ UNCHANGED <<hashfn, httpVars, planVars, deployVars>>

\* profile_delete: ComposeManager(config.COMPOSE_FILE) loads the file, then
\* manager.remove_profile(name); the command has no check of its own. The
\* call log keeps the document the manager loaded.
ProfileDelete(name, outcome) ==
    \E l \in load(disk, COMPOSE_FILE) :
        /\ outcome \in AllowedOutcomes
        /\ IF l.exc # "none"
           THEN /\ last' = [op |-> "load", name |-> COMPOSE_FILE, exc |-> l.exc]
                /\ UNCHANGED <<data, disk, saveFails>>
           ELSE LET r == remove_profile(l.data, disk, name, outcome)
                IN  /\ data' = r.data
                    /\ disk' = r.disk
                    /\ last' = [op |-> "remove_profile", name |-> name,
                                exc |-> r.exc, manager |-> l.data]
                    /\ saveFails' = IF r.exc = "OSError"
                                    THEN saveFails + 1 ELSE saveFails
        /\ UNCHANGED <<hashfn, httpVars, planVars, deployVars>>

ProfileNext ==
    \/ \E name \in StoreNames, profile \in StoredProfiles :
          AddService(name, 20000, profile, "ok")
    \/ \E name \in StoreNames : RemoveService(name, "ok")
    \/ \E name \in StoredProfiles \cup {acc9}, outcome \in SaveOutcomes :
          ProfileDelete(name, outcome)

SpecProfile == Init /\ [][ProfileNext]_vars

----------------------------------------------------------------------------
(* fleet_manager.py: FleetManager.plan_deployment                          *)

\* bounds of the planner's inputs
MaxCities == 2
MaxCapacity == 2

CountryA == <<"A">>
CountryUS == <<"U"," ","S">>
Countries == {CountryA, CountryUS}

\* two of the cities have the same sanitized name
Cities == {<<"N"," ","Y">>, <<"n","-","y">>, <<"L","A">>}

PortStarts == {20000, 20001}

\* the sequences without repetition of at most n elements of S
RECURSIVE SeqsOf(_, _)
SeqsOf(S, n) ==
    IF n = 0 THEN {<<>>}
    ELSE LET shorter == SeqsOf(S, n - 1)
         IN  shorter \cup {Append(q, x) : q \in shorter, x \in S}

NoRepeat(q) == \A i, j \in 1..Len(q) : i # j => q[i] # q[j]

Distinct(S, n) == {q \in SeqsOf(S, n) : NoRepeat(q)}

\* list_cities of one country: the cities, or an exception
CityLists == {[ok |-> TRUE, cities |-> q] : q \in Distinct(Cities, MaxCities)}
             \cup {[ok |-> FALSE, cities |-> <<>>]}

\* config.profiles: a dict, in the order of declaration
CapacityMappings ==
    UNION {{[i \in 1..Len(q) |-> <<q[i], caps[i]>>] :
               caps \in [1..Len(q) -> 0..MaxCapacity]} :
           q \in Distinct({acc1, acc2}, 2)}

FleetConfigs ==
    {[countries |-> c, profiles |-> p, port_start |-> s] :
        c \in Distinct(Countries, 2) \ {<<>>}, p \in CapacityMappings,
        s \in PortStarts}

\* sum(config.profiles.values())
RECURSIVE SumCapacities(_)
SumCapacities(capacities) ==
    IF capacities = <<>> THEN 0
    ELSE capacities[1][2] + SumCapacities(Tail(capacities))

\* naming_template.format(...) with the default template
\* "{provider}-{country}-{city}"
FormatName(provider, country, city) ==
    provider \o <<"-">> \o ReplaceSpaces(Lower(country)) \o <<"-">>
    \o ReplaceSpaces(Lower(city))

\* DeploymentPlan.add_service
plan_add_service(services, name, profile, location, country, port, provider) ==
    Append(services, [name |-> name, profile |-> profile,
                      location |-> location, country |-> country,
                      port |-> port, provider |-> provider])

\* FleetManager.__init__: the allocator is constructed without services
FleetManagerInit == alloc = ProfileAllocator(<<>>)

\* plan_deployment: the empty plan and the empty list of cities
PlanBegin ==
    /\ ppc = "start"
    /\ plan' = <<>>
    /\ all_cities' = <<>>
    /\ ci' = 1
    /\ ppc' = "cities"
    /\ UNCHANGED <<cfg, catalog, alloc, current_port, storeVars, httpVars, deployVars>>

\* plan_deployment: list_cities returns the cities of the next country
ListCities ==
    /\ ppc = "cities"
    /\ ci <= Len(cfg.countries)
    /\ catalog[cfg.countries[ci]].ok
    /\ all_cities' = all_cities \o
          [i \in 1..Len(catalog[cfg.countries[ci]].cities) |->
              <<cfg.countries[ci], catalog[cfg.countries[ci]].cities[i]>>]
    /\ ci' = ci + 1
    /\ UNCHANGED <<cfg, catalog, ppc, alloc, plan, current_port, storeVars, httpVars,
                   deployVars>>

\* a planner that gives up when list_cities raises
ListCitiesRaises_abort ==
    /\ ppc = "cities"
    /\ ci <= Len(cfg.countries)
    /\ ~catalog[cfg.countries[ci]].ok
    /\ ppc' = "raised"
    /\ UNCHANGED <<cfg, catalog, ci, all_cities, alloc, plan, current_port,
                   storeVars, httpVars, deployVars>>

\* plan_deployment: list_cities raises, the country is skipped
ListCitiesRaises ==
    /\ ppc = "cities"
    /\ ci <= Len(cfg.countries)
    /\ ~catalog[cfg.countries[ci]].ok
    /\ ci' = ci + 1
    /\ UNCHANGED <<cfg, catalog, ppc, all_cities, alloc, plan, current_port,
                   storeVars, httpVars, deployVars>>

\* a truncation that keeps the last cities instead of the first
Truncate_last(cities, total_slots) ==
    IF Len(cities) > total_slots
    THEN SubSeq(cities, Len(cities) - total_slots + 1, Len(cities))
    ELSE cities

\* plan_deployment: the list of cities cut to the number of slots
Truncate(cities, total_slots) ==
    IF Len(cities) > total_slots THEN SubSeq(cities, 1, total_slots)
    ELSE cities

\* a planner that sets its allocator up on the first call only
SetupAllocator_once ==
    /\ ppc = "cities"
    /\ ci > Len(cfg.countries)
    /\ all_cities' = Truncate(all_cities, SumCapacities(cfg.profiles))
    /\ alloc' = IF DOMAIN alloc.slots = {}
                THEN setup_profiles(alloc, cfg.profiles).alloc ELSE alloc
    /\ ppc' = "allocate"
    /\ current_port' = cfg.port_start
    /\ UNCHANGED <<cfg, catalog, ci, plan, storeVars, httpVars, deployVars>>

\* plan_deployment: truncation, setup of the allocator, first port
SetupAllocator ==
    /\ ppc = "cities"
    /\ ci > Len(cfg.countries)
    /\ all_cities' = Truncate(all_cities, SumCapacities(cfg.profiles))
    /\ alloc' = setup_profiles(alloc, cfg.profiles).alloc
    /\ ppc' = IF setup_profiles(alloc, cfg.profiles).exc = "none"
              THEN "allocate" ELSE "raised"
    /\ current_port' = cfg.port_start
    /\ UNCHANGED <<cfg, catalog, ci, plan, storeVars, httpVars, deployVars>>

\* a port that is incremented by two
NextPort_skip(port) == port + 2

\* a port that is not incremented
NextPort_same(port) == port

\* plan_deployment: the port of the service after one that got port
NextPort(port) == port + 1

\* plan_deployment: one turn of the loop over the cities
AllocateCity ==
    /\ ppc = "allocate"
    /\ Len(plan) < Len(all_cities)
    /\ LET country == all_cities[Len(plan) + 1][1]
           city == all_cities[Len(plan) + 1][2]
           slot == get_next_available(alloc, cfg.profiles)
           service_name == sanitize_service_name(FormatName(prov, country, city))
       IN  IF slot = 0
           THEN /\ ppc' = "done"
                /\ UNCHANGED <<plan, alloc, current_port>>
           ELSE /\ plan' = plan_add_service(plan, service_name,
                                            cfg.profiles[slot][1], city, country,
                                            current_port, prov)
                /\ alloc' = allocate_slot(alloc, cfg.profiles[slot][1],
                                          service_name)
                /\ current_port' = NextPort(current_port)
                /\ ppc' = ppc
    /\ UNCHANGED <<cfg, catalog, ci, all_cities, storeVars, httpVars, deployVars>>

\* a planner that puts the first service of its plan into the store
PlanReturn_stores ==
    /\ ppc = "allocate"
    /\ Len(plan) = Len(all_cities)
    /\ ppc' = "done"
    /\ LET r == IF plan = <<>> THEN [data |-> data, disk |-> disk]
                ELSE add_service(data, disk,
                        VPNService(plan[1].name, plan[1].port, prov,
                                   plan[1].profile, plan[1].location, <<>>,
                                   <<>>, DEFAULT_CONTROL_PORT_START), "ok")
       IN  data' = r.data /\ disk' = r.disk
    /\ UNCHANGED <<cfg, catalog, ci, all_cities, alloc, plan, current_port,
                   hashfn, httpVars, last, saveFails, deployVars>>

\* plan_deployment returns the plan
PlanReturn ==
    /\ ppc = "allocate"
    /\ Len(plan) = Len(all_cities)
    /\ ppc' = "done"
    /\ UNCHANGED <<cfg, catalog, ci, all_cities, alloc, plan, current_port,
                   storeVars, httpVars, deployVars>>

\* a service that is in the store before planning
StoredService ==
    VPNService(<<"o","l","d">>, 20000, prov, acc1, LA,
               << <<VPN_SERVICE_PROVIDER, prov>>, <<SERVER_CITIES, LA>> >>,
               [k \in {"vpn.profile"} |-> acc1], DEFAULT_CONTROL_PORT_START)

StoredDoc ==
    [InitialDoc EXCEPT !.services =
        (StoredService.name :> to_compose_service(StoredService))]

PlanInit ==
    /\ data \in {InitialDoc, StoredDoc}
    /\ disk = [state |-> "ok", doc |-> data]
    /\ hashfn = <<>>
    /\ last = [op |-> "none", name |-> <<>>, exc |-> "none"]
    /\ saveFails = 0
    /\ HttpIdle
    /\ cfg \in FleetConfigs
    /\ catalog \in [Range(cfg.countries) -> CityLists]
    /\ ppc = "start"
    /\ ci = 0
    /\ all_cities = <<>>
    /\ FleetManagerInit
    /\ plan = <<>>
    /\ current_port = 0
    /\ DeployIdle

PlanNext ==
    \/ PlanBegin
    \/ ListCities
    \/ ListCitiesRaises
    \/ SetupAllocator
    \/ AllocateCity
    \/ PlanReturn

SpecPlan == PlanInit /\ [][PlanNext]_vars

----------------------------------------------------------------------------
(* Claims about the planner                                                *)

\* the (country, city) pairs of the catalog for the countries of a request,
\* country-major, in catalog order; a country whose query raises has none
RECURSIVE CatalogPairs(_)
CatalogPairs(countries) ==
    IF countries = <<>> THEN <<>>
    ELSE (IF catalog[Head(countries)].ok
          THEN [i \in 1..Len(catalog[Head(countries)].cities) |->
                   <<Head(countries), catalog[Head(countries)].cities[i]>>]
          ELSE <<>>)
         \o CatalogPairs(Tail(countries))

PlanPair(i) == <<plan[i].country, plan[i].location>>

\* C5: when the catalog has at most sum(C.values()) cities, every
\* (country, city) pair is in the plan exactly once, with one declared
\* profile, and the ports increase strictly from port_start.
C5_WithinCapacity ==
    (ppc = "done"
       /\ Len(CatalogPairs(cfg.countries)) <= SumCapacities(cfg.profiles))
    => /\ \A pr \in Range(CatalogPairs(cfg.countries)) :
             Cardinality({i \in 1..Len(plan) : PlanPair(i) = pr}) = 1
       /\ \A i \in 1..Len(plan) :
             /\ PlanPair(i) \in Range(CatalogPairs(cfg.countries))
             /\ plan[i].profile \in ProfileNames(cfg.profiles)
       /\ Len(plan) > 0 => plan[1].port = cfg.port_start
       /\ \A i \in 1..(Len(plan) - 1) : plan[i].port < plan[i + 1].port

\* a plan of three cities that all fit
C5_Witness ==
    /\ ppc = "done"
    /\ Len(CatalogPairs(cfg.countries)) <= SumCapacities(cfg.profiles)
    /\ Len(plan) = 3

\* C6: when the catalog has more than sum(C.values()) cities, the plan has
\* exactly sum(C.values()) entries, the first ones in country-major, catalog
\* order.
C6_OverCapacity ==
    (ppc = "done"
       /\ Len(CatalogPairs(cfg.countries)) > SumCapacities(cfg.profiles))
    => /\ Len(plan) = SumCapacities(cfg.profiles)
       /\ \A i \in 1..Len(plan) : PlanPair(i) = CatalogPairs(cfg.countries)[i]

\* a plan cut to two of at least three cities
C6_Witness ==
    /\ ppc = "done"
    /\ Len(CatalogPairs(cfg.countries)) > SumCapacities(cfg.profiles)
    /\ Len(plan) = 2

\* the declared profiles, each repeated as often as its capacity
RECURSIVE Slots(_)
Slots(capacities) ==
    IF capacities = <<>> THEN <<>>
    ELSE [i \in 1..capacities[1][2] |-> capacities[1][1]]
         \o Slots(Tail(capacities))

\* C7: the profiles of the plan are the declared profiles in the order of
\* declaration, each repeated as many times as it has slots.
C7_DeclarationOrder ==
    ppc \in {"allocate", "done"}
    => /\ Len(plan) <= Len(Slots(cfg.profiles))
       /\ \A i \in 1..Len(plan) : plan[i].profile = Slots(cfg.profiles)[i]

\* C8: for every profile, the services of the store on it plus the services
\* the planner allocated to it are at most its capacity.
C8_CapacityInvariant ==
    ppc \in {"allocate", "done"}
    => \A p \in ProfileNames(cfg.profiles) :
          Cardinality({s \in list_services(data) : s.profile = p})
          + Cardinality({i \in 1..Len(plan) : plan[i].profile = p})
          <= CapacityOf(cfg.profiles, p)

\* C26: in a plan that plan_deployment returns the names are pairwise
\* distinct, the ports are pairwise distinct, and no name and no port is the
\* name or the port of a service of the store.
C26_ConflictFree ==
    ppc = "done"
    => /\ \A i, j \in 1..Len(plan) :
             i # j => (plan[i].name # plan[j].name /\ plan[i].port # plan[j].port)
       /\ \A i \in 1..Len(plan) :
             \A s \in list_services(data) :
                plan[i].name # s.name /\ plan[i].port # s.port

\* C27: no step of plan_deployment changes the document or the file of the
\* store or makes a call to the runtime, whether the plan comes out full,
\* truncated or empty.
C27_PlanningIsPure ==
    /\ [](runtime = {})
    /\ [](disk.state = "ok")
    /\ [][ data' = data /\ disk' = disk /\ saveFails' = saveFails
           /\ runtime' = runtime ]_vars

\* a truncated plan of two services has been returned on a store that holds
\* a service, which is still the only one in the document and in the file
C27_Witness ==
    /\ ppc = "done"
    /\ Len(plan) = 2
    /\ Len(CatalogPairs(cfg.countries)) > 2
    /\ data = StoredDoc
    /\ disk = [state |-> "ok", doc |-> StoredDoc]
    /\ runtime = {}

Min(a, b) == IF a <= b THEN a ELSE b

\* C29: when list_cities raises for countries of the request,
\* plan_deployment does not raise; such a country adds no city, and the
\* cities of the other countries are planned in the order of the countries
\* and, within a country, of the catalog, as many as there are slots.
C29_CatalogFailureLocal ==
    /\ ppc # "raised"
    /\ ppc = "cities"
       => all_cities = CatalogPairs(SubSeq(cfg.countries, 1, ci - 1))
    /\ ppc = "done"
       => /\ Len(plan) = Min(Len(CatalogPairs(cfg.countries)),
                             SumCapacities(cfg.profiles))
          /\ \A i \in 1..Len(plan) :
                /\ PlanPair(i) = CatalogPairs(cfg.countries)[i]
                /\ catalog[plan[i].country].ok

\* list_cities raised for the first country of a request and the plan holds
\* the two cities of the second country
C29_Witness ==
    /\ ppc = "done"
    /\ cfg.countries = <<CountryA, CountryUS>>
    /\ ~catalog[CountryA].ok
    /\ Len(catalog[CountryUS].cities) = 2
    /\ Len(plan) = 2
    /\ \A i \in 1..2 : PlanPair(i) = <<CountryUS, catalog[CountryUS].cities[i]>>

\* C30: the i-th service of a plan, counted from 0, has port port_start + i,
\* whether a country was skipped or the list of cities was cut.
C30_PortsContiguous ==
    ppc \in {"allocate", "done"}
    => \A i \in 1..Len(plan) : plan[i].port = cfg.port_start + (i - 1)

\* a plan of two services, from port_start 20001, of a request whose first
\* country was skipped
C30_Witness ==
    /\ ppc = "done"
    /\ Len(cfg.countries) = 2
    /\ ~catalog[cfg.countries[1]].ok
    /\ cfg.port_start = 20001
    /\ Len(plan) = 2
    /\ plan[1].port = 20001
    /\ plan[2].port = 20002

\* C32: the setup of the allocator in plan_deployment gives every profile
\* its capacity less the number of services the store holds on it, and when
\* the store holds more services on a profile than its capacity the call
\* raises before it truncates or plans.
C32_SetupCountsStore ==
    /\ (ppc = "allocate" /\ plan = <<>>)
       => \A p \in ProfileNames(cfg.profiles) :
             alloc.slots[p].remaining
                = CapacityOf(cfg.profiles, p) - Cardinality(ServicesOn(data, p))
    /\ (\E p \in ProfileNames(cfg.profiles) :
           Cardinality(ServicesOn(data, p)) > CapacityOf(cfg.profiles, p))
       => ppc \in {"start", "cities", "raised"}

----------------------------------------------------------------------------
(* plan_deployment called twice with the same request                      *)

\* the caller keeps the plan of the first call and calls plan_deployment
\* again with the same FleetConfig, on the same FleetManager or on one it
\* constructs anew
PlanAgain(fresh) ==
    /\ ppc = "done"
    /\ last.op = "none"
    /\ last' = [op |-> "plan_deployment", name |-> <<>>, exc |-> "none",
                ret |-> plan, manager |-> IF fresh THEN "new" ELSE "same"]
    /\ alloc' = IF fresh THEN ProfileAllocator(<<>>) ELSE alloc
    /\ ppc' = "start"
    /\ UNCHANGED <<cfg, catalog, ci, all_cities, plan, current_port, data,
                   disk, hashfn, httpVars, saveFails, deployVars>>

ReplanInit == PlanInit /\ cfg.port_start = 20000

ReplanNext ==
    \/ PlanBegin
    \/ ListCities
    \/ ListCitiesRaises
    \/ SetupAllocator
    \/ AllocateCity
    \/ PlanReturn
    \/ \E fresh \in BOOLEAN : PlanAgain(fresh)

SpecReplan == ReplanInit /\ [][ReplanNext]_vars

\* C28: a second call of plan_deployment with the same request, the same
\* catalog and the same store returns a plan equal to the first, on the same
\* FleetManager and on a new one, and starts from the full capacities: the
\* slots the first call allocated are not counted.
C28_ReplanEqual ==
    last.op = "plan_deployment"
    => /\ ppc = "done" => plan = last.ret
       /\ (ppc = "allocate" /\ plan = <<>>)
          => \A p \in ProfileNames(cfg.profiles) :
                alloc.slots[p].remaining = CapacityOf(cfg.profiles, p)

\* the second call on the same FleetManager has returned a plan of two
\* services, as many as there are slots, equal to the plan of the first call
C28_Witness ==
    /\ last.op = "plan_deployment"
    /\ last.manager = "same"
    /\ ppc = "done"
    /\ Len(plan) = 2
    /\ SumCapacities(cfg.profiles) = 2
    /\ plan = last.ret

----------------------------------------------------------------------------
(* plan_deployment on requests that set max_per_profile                    *)

\* FleetConfig(..., max_per_profile=m)
CappedConfigs ==
    {[countries |-> c.countries, profiles |-> c.profiles,
      port_start |-> c.port_start, max_per_profile |-> m] :
        c \in {f \in FleetConfigs : f.port_start = 20000}, m \in 1..MaxCapacity}

CapInit ==
    /\ data = InitialDoc
    /\ disk = [state |-> "ok", doc |-> data]
    /\ hashfn = <<>>
    /\ last = [op |-> "none", name |-> <<>>, exc |-> "none"]
    /\ saveFails = 0
    /\ HttpIdle
    /\ cfg \in CappedConfigs
    /\ catalog \in [Range(cfg.countries) -> CityLists]
    /\ ppc = "start"
    /\ ci = 0
    /\ all_cities = <<>>
    /\ FleetManagerInit
    /\ plan = <<>>
    /\ current_port = 0
    /\ DeployIdle

SpecCap == CapInit /\ [][PlanNext]_vars

\* C31: when the request sets max_per_profile = m, no profile has more than
\* m services in the plan.
C31_CapRespected ==
    ppc \in {"allocate", "done"}
    => \A p \in ProfileNames(cfg.profiles) :
          Cardinality({i \in 1..Len(plan) : plan[i].profile = p})
          <= cfg.max_per_profile

----------------------------------------------------------------------------
(* FleetManager._sanitize_service_name on any text                         *)

\* bound of the length of the texts
MaxLen == 3

\* the characters of the texts: upper and lower case, the dash and the
\* underscore, and a character that a name may not have
TextChars == {"A", "b", "-", "_", "!"}

Texts == SeqsOf(TextChars, MaxLen)

\* a call of _sanitize_service_name
Sanitize(name) ==
    /\ last' = [op |-> "sanitize", name |-> name, exc |-> "none",
                ret |-> sanitize_service_name(name)]
    /\ UNCHANGED <<data, disk, hashfn, httpVars, saveFails, planVars, deployVars>>

\* a call of _sanitize_service_name on the name that the last call returned
SanitizeAgain ==
    /\ last.op = "sanitize"
    /\ Sanitize(last.ret)

SanitizeInit ==
    /\ data = InitialDoc
    /\ disk = [state |-> "ok", doc |-> InitialDoc]
    /\ hashfn = <<>>
    /\ last = [op |-> "none", name |-> <<>>, exc |-> "none"]
    /\ saveFails = 0
    /\ HttpIdle
    /\ PlanIdle
    /\ DeployIdle

SanitizeNext ==
    \/ \E name \in Texts : Sanitize(name)
    \/ SanitizeAgain

SpecSanitize == SanitizeInit /\ [][SanitizeNext]_vars

\* C20: sanitizing a sanitized name returns the same name.
C20_SanitizeIdempotent ==
    last.op = "sanitize"
    => sanitize_service_name(last.ret) = last.ret

\* the name a-b was returned for a text and has been sanitized again
C20_Witness ==
    /\ last.op = "sanitize"
    /\ last.name = <<"a", "-", "b">>
    /\ last.ret = last.name

\* C34: the result of _sanitize_service_name has only characters of
\* [a-z0-9_-], has no two dashes in a row, and has no dash at its start or
\* at its end.
C34_SanitizedCompatible ==
    last.op = "sanitize"
    => /\ \A i \in 1..Len(last.ret) :
             last.ret[i] \in Range(LowerChars) \cup Range(DigitChars)
                             \cup {"_", "-"}
       /\ \A i \in 1..(Len(last.ret) - 1) :
             ~(last.ret[i] = "-" /\ last.ret[i + 1] = "-")
       /\ last.ret # <<>>
          => (last.ret[1] # "-" /\ last.ret[Len(last.ret)] # "-")

\* "!A-" has been sanitized to "a": a character was replaced, the dashes at
\* both ends were stripped and the letter was lowered
C34_Witness ==
    /\ last.op = "sanitize"
    /\ last.name = <<"!", "A", "-">>
    /\ last.ret = <<"a">>

----------------------------------------------------------------------------
(* fleet_manager.py: FleetManager.deploy_fleet                             *)

\* bound of the plans that deploy runs
MaxPlan == 2

\* asyncio.Semaphore(5)
MAX_CONCURRENT_STARTS == 5

\* the entries of the plans: the ports go up from 20000 as the planner
\* numbers them
PlanEntries(i) ==
    {[name |-> n, profile |-> p, location |-> LA, country |-> CountryA,
      port |-> 20000 + (i - 1), provider |-> prov] :
        n \in StoreNames, p \in {acc1, acc9}}

Plans ==
    UNION {{q \in [1..n -> UNION {PlanEntries(i) : i \in 1..n}] :
               \A i \in 1..n : q[i] \in PlanEntries(i)} : n \in 0..MaxPlan}

\* DeploymentPlan.service_names
service_names(services) == [i \in 1..Len(services) |-> services[i].name]

\* [s.name for s in plan.services if s.name]
RECURSIVE StartNames(_)
StartNames(services) ==
    IF services = <<>> THEN <<>>
    ELSE IF Head(services).name # <<>>
    THEN <<Head(services).name>> \o StartNames(Tail(services))
    ELSE StartNames(Tail(services))

\* deploy_fleet: the counters and the list of errors
DeployBegin ==
    /\ dpc = "start"
    /\ deployed' = 0
    /\ failed' = 0
    /\ errors' = <<>>
    /\ addOk' = <<>>
    /\ di' = 1
    /\ dpc' = "adding"
    /\ UNCHANGED <<parallel, taskpc, sem, runtime, result, storeVars, httpVars, planVars>>

\* a loop that gives up the batch at the first add that fails
NextEntry_abort(i, exc) == IF exc = "none" THEN i + 1 ELSE i + MaxPlan + 1

\* deploy_fleet: the index of the entry handled after entry i, when the add
\* of entry i ended with exc
NextEntry(i, exc) == i + 1

\* deploy_fleet: one turn of the loop that creates the services
DeployAdd(outcome) ==
    /\ dpc = "adding"
    /\ di <= Len(plan)
    /\ outcome \in AllowedOutcomes
    /\ LET service_plan == plan[di]
           r == add_service(data, disk, ServiceOf(service_plan), outcome)
       IN  /\ data' = r.data
           /\ disk' = r.disk
           /\ last' = [op |-> "add_service",
                       name |-> ServiceOf(service_plan).name, exc |-> r.exc]
           /\ saveFails' = IF r.exc = "OSError" THEN saveFails + 1
                           ELSE saveFails
           /\ IF r.exc = "none"
              THEN /\ deployed' = deployed + 1
                   /\ UNCHANGED <<failed, errors>>
              ELSE /\ errors' = Append(errors, [name |-> service_plan.name,
                                                exc |-> r.exc])
                   /\ failed' = failed + 1
                   /\ UNCHANGED deployed
           /\ addOk' = Append(addOk, r.exc = "none")
           /\ di' = NextEntry(di, r.exc)
    /\ UNCHANGED <<hashfn, httpVars, dpc, parallel, taskpc, sem, runtime, result,
                   planVars>>

\* a loop over the plan that is left after its first entry
AddsDone_early(i, services) == i > 1

\* deploy_fleet: the for loop over plan.services has handled every entry
AddsDone(i, services) == i > Len(services)

\* deploy_fleet: the start tasks are made, for _start_services_parallel
\* with its semaphore or for _start_services_sequential
DeployStartPhase ==
    /\ dpc = "adding"
    /\ AddsDone(di, plan)
    /\ taskpc' = [i \in 1..Len(StartNames(plan)) |-> "pending"]
    /\ sem' = IF parallel THEN MAX_CONCURRENT_STARTS ELSE 0
    /\ dpc' = "starting"
    /\ UNCHANGED <<parallel, di, deployed, failed, errors, addOk, runtime,
                   result, storeVars, httpVars, planVars>>

TaskName(i) == StartNames(plan)[i]

\* a semaphore that always lets a task in
CanAcquire_always(permits) == TRUE

\* async with semaphore, on entry: a task gets in when a permit is left
CanAcquire(permits) == permits > 0

\* a semaphore that never gets a permit back
Release_leak(permits) == permits

\* async with semaphore, on exit (normal or by an exception): the permit
\* is given back
Release(permits) == permits + 1

\* start_service / the loop body: get_service and get_profile succeed
LookupOk(name) ==
    /\ get_service(data, name).exc = "none"
    /\ get_profile(data, get_service(data, name).service.profile).exc = "none"

\* a start that makes no call to the store
Lookup_skip(name) == [op |-> "none", name |-> <<>>, exc |-> "none"]

\* start_service / the loop body: the last call the store gets: get_service
\* when it raises, else get_profile for the profile of the service
Lookup(name) ==
    IF get_service(data, name).exc # "none"
    THEN [op |-> "get_service", name |-> name,
          exc |-> get_service(data, name).exc]
    ELSE [op |-> "get_profile",
          name |-> get_service(data, name).service.profile,
          exc |-> get_profile(data, get_service(data, name).service.profile).exc]

\* _start_services_parallel.start_service: the task takes a permit, looks
\* the service up and hands recreate_vpn_container to a thread
StartServiceBegin(i) ==
    /\ dpc = "starting"
    /\ parallel
    /\ taskpc[i] = "pending"
    /\ \A j \in 1..(i - 1) : taskpc[j] # "pending"
    /\ CanAcquire(sem)
    /\ IF LookupOk(TaskName(i))
       THEN /\ taskpc' = [taskpc EXCEPT ![i] = "creating"]
            /\ runtime' = runtime \cup {[op |-> "create", name |-> TaskName(i)]}
            /\ sem' = sem - 1
       ELSE /\ taskpc' = [taskpc EXCEPT ![i] = "done"]
            /\ UNCHANGED <<runtime, sem>>
    /\ last' = Lookup(TaskName(i))
    /\ UNCHANGED <<dpc, parallel, di, deployed, failed, errors, addOk, result,
                   data, disk, hashfn, httpVars, saveFails, planVars>>

\* start_service: recreate_vpn_container returns or raises
StartServiceCreated(i, ok) ==
    /\ dpc = "starting"
    /\ parallel
    /\ taskpc[i] = "creating"
    /\ IF ok
       THEN /\ taskpc' = [taskpc EXCEPT ![i] = "starting"]
            /\ runtime' = runtime \cup {[op |-> "start", name |-> TaskName(i)]}
            /\ UNCHANGED sem
       ELSE /\ taskpc' = [taskpc EXCEPT ![i] = "done"]
            /\ sem' = Release(sem)
            /\ UNCHANGED runtime
    /\ UNCHANGED <<dpc, parallel, di, deployed, failed, errors, addOk, result,
                   storeVars, httpVars, planVars>>

\* start_service: start_container returns or raises, the permit is released
StartServiceStarted(i, ok) ==
    /\ dpc = "starting"
    /\ parallel
    /\ taskpc[i] = "starting"
    /\ ok \in BOOLEAN
    /\ taskpc' = [taskpc EXCEPT ![i] = "done"]
    /\ sem' = Release(sem)
    /\ UNCHANGED <<dpc, parallel, di, deployed, failed, errors, addOk, runtime,
                   result, storeVars, httpVars, planVars>>

\* _start_services_sequential: the next service is looked up and
\* recreate_vpn_container is handed to a thread
SequentialBegin(i) ==
    /\ dpc = "starting"
    /\ ~parallel
    /\ taskpc[i] = "pending"
    /\ \A j \in 1..(i - 1) : taskpc[j] = "done"
    /\ IF LookupOk(TaskName(i))
       THEN /\ taskpc' = [taskpc EXCEPT ![i] = "creating"]
            /\ runtime' = runtime \cup {[op |-> "create", name |-> TaskName(i)]}
       ELSE /\ taskpc' = [taskpc EXCEPT ![i] = "done"]
            /\ UNCHANGED runtime
    /\ last' = Lookup(TaskName(i))
    /\ UNCHANGED <<dpc, parallel, di, deployed, failed, errors, addOk, sem,
                   result, data, disk, hashfn, httpVars, saveFails, planVars>>

\* _start_services_sequential: recreate_vpn_container returns or raises
SequentialCreated(i, ok) ==
    /\ dpc = "starting"
    /\ ~parallel
    /\ taskpc[i] = "creating"
    /\ IF ok
       THEN /\ taskpc' = [taskpc EXCEPT ![i] = "starting"]
            /\ runtime' = runtime \cup {[op |-> "start", name |-> TaskName(i)]}
       ELSE /\ taskpc' = [taskpc EXCEPT ![i] = "done"]
            /\ UNCHANGED runtime
    /\ UNCHANGED <<dpc, parallel, di, deployed, failed, errors, addOk, sem,
                   result, storeVars, httpVars, planVars>>

\* _start_services_sequential: start_container returns or raises
SequentialStarted(i, ok) ==
    /\ dpc = "starting"
    /\ ~parallel
    /\ taskpc[i] = "starting"
    /\ ok \in BOOLEAN
    /\ taskpc' = [taskpc EXCEPT ![i] = "done"]
    /\ UNCHANGED <<dpc, parallel, di, deployed, failed, errors, addOk, sem,
                   runtime, result, storeVars, httpVars, planVars>>

\* DeploymentResult(...)
DeploymentResult(d, f, services, errs) ==
    [deployed |-> d, failed |-> f, services |-> services, errors |-> errs]

\* deploy_fleet: every start has ended, the result is returned
DeployReturn ==
    /\ dpc = "starting"
    /\ \A i \in 1..Len(taskpc) : taskpc[i] = "done"
    /\ result' = DeploymentResult(deployed, failed, service_names(plan), errors)
    /\ dpc' = "returned"
    /\ UNCHANGED <<parallel, di, deployed, failed, errors, addOk, taskpc, sem,
                   runtime, storeVars, httpVars, planVars>>

\* the documents deploy may find: no service, or service "a" from an earlier
\* run
EarlierService ==
    VPNService(<<"a">>, 20001, prov, acc1, LA,
               << <<VPN_SERVICE_PROVIDER, prov>>, <<SERVER_CITIES, LA>> >>,
               [k \in {"vpn.profile"} |-> acc1], DEFAULT_CONTROL_PORT_START)

EarlierDoc ==
    [InitialDoc EXCEPT !.services =
        (EarlierService.name :> to_compose_service(EarlierService))]

DeployInit ==
    /\ data \in {InitialDoc, EarlierDoc}
    /\ disk = [state |-> "ok", doc |-> data]
    /\ hashfn \in Hashes(StoreNames)
    /\ last = [op |-> "none", name |-> <<>>, exc |-> "none"]
    /\ saveFails = 0
    /\ HttpIdle
    /\ cfg = NoConfig
    /\ catalog = <<>>
    /\ ppc = "idle"
    /\ ci = 0
    /\ all_cities = <<>>
    /\ FleetManagerInit
    /\ plan \in Plans
    /\ current_port = 0
    /\ dpc = "start"
    /\ parallel \in BOOLEAN
    /\ di = 0
    /\ deployed = 0
    /\ failed = 0
    /\ errors = <<>>
    /\ addOk = <<>>
    /\ taskpc = <<>>
    /\ sem = 0
    /\ runtime = {}
    /\ result = <<>>

DeployNext ==
    \/ DeployBegin
    \/ \E outcome \in SaveOutcomes : DeployAdd(outcome)
    \/ DeployStartPhase
    \/ \E i \in 1..Len(taskpc) : StartServiceBegin(i)
    \/ \E i \in 1..Len(taskpc), ok \in BOOLEAN : StartServiceCreated(i, ok)
    \/ \E i \in 1..Len(taskpc), ok \in BOOLEAN : StartServiceStarted(i, ok)
    \/ \E i \in 1..Len(taskpc) : SequentialBegin(i)
    \/ \E i \in 1..Len(taskpc), ok \in BOOLEAN : SequentialCreated(i, ok)
    \/ \E i \in 1..Len(taskpc), ok \in BOOLEAN : SequentialStarted(i, ok)
    \/ DeployReturn

SpecDeploy == DeployInit /\ [][DeployNext]_vars

----------------------------------------------------------------------------
(* fleet_manager.py: DeploymentPlan.to_dict and DeploymentPlan.from_dict   *)

\* the fields of the dataclass ServicePlan
SERVICE_PLAN_FIELDS == {"name", "profile", "location", "country", "port", "provider"}

\* the dict that to_dict makes of one ServicePlan, held as the sequence of
\* its <<key, value>> items
ServiceDict(s) ==
    << <<"name", s.name>>, <<"profile", s.profile>>,
       <<"location", s.location>>, <<"country", s.country>>,
       <<"port", s.port>>, <<"provider", s.provider>> >>

\* to_dict that writes the provider of the plan for every service
to_dict_plan_provider(self) ==
    << <<"provider", self.provider>>,
       <<"services",
         [i \in 1..Len(self.services) |->
            ItemsSet(ServiceDict(self.services[i]), "provider", self.provider)]>> >>

\* DeploymentPlan.to_dict
to_dict(self) ==
    << <<"provider", self.provider>>,
       <<"services",
         [i \in 1..Len(self.services) |-> ServiceDict(self.services[i])]>> >>

Keys(items) == {items[i][1] : i \in 1..Len(items)}

\* ServicePlan(**service_data)
ServicePlan(service_data) ==
    [name     |-> ItemsGet(service_data, "name", <<>>),
     profile  |-> ItemsGet(service_data, "profile", <<>>),
     location |-> ItemsGet(service_data, "location", <<>>),
     country  |-> ItemsGet(service_data, "country", <<>>),
     port     |-> ItemsGet(service_data, "port", 0),
     provider |-> ItemsGet(service_data, "provider", <<>>)]

\* DeploymentPlan.from_dict: the exception it raises, or the plan
from_dict(d) ==
    IF {"provider", "services"} \ Keys(d) # {}
    THEN [exc |-> "KeyError"]
    ELSE LET services == ItemsGet(d, "services", <<>>)
         IN  IF \E i \in 1..Len(services) : Keys(services[i]) # SERVICE_PLAN_FIELDS
             THEN [exc |-> "TypeError"]
             ELSE [exc  |-> "none",
                   plan |-> [provider |-> ItemsGet(d, "provider", <<>>),
                             services |-> [i \in 1..Len(services) |->
                                             ServicePlan(services[i])]]]

\* the entries of the plans that are serialized: the provider of an entry
\* may differ from the provider of its plan
DictEntries ==
    {[name |-> n, profile |-> acc1, location |-> LA, country |-> CountryA,
      port |-> q, provider |-> v] :
        n \in StoreNames, q \in Ports, v \in {prov, <<"x">>}}

\* DeploymentPlan(provider, services)
DeploymentPlans ==
    {[provider |-> v, services |-> q] :
        v \in {prov, <<>>},
        q \in UNION {[1..n -> DictEntries] : n \in 0..MaxPlan}}

\* a call of to_dict on the plan
ToDict ==
    /\ last.op = "plan"
    /\ last' = [op |-> "to_dict", name |-> <<>>, exc |-> "none",
                plan |-> last.plan, ret |-> to_dict(last.plan)]
    /\ UNCHANGED <<data, disk, hashfn, httpVars, saveFails, planVars, deployVars>>

\* a call of from_dict on the dict that to_dict returned
FromDict ==
    /\ last.op = "to_dict"
    /\ LET r == from_dict(last.ret)
       IN  last' = IF r.exc = "none"
                   THEN [op |-> "from_dict", name |-> <<>>, exc |-> "none",
                         plan |-> last.plan, ret |-> r.plan]
                   ELSE [op |-> "from_dict", name |-> <<>>, exc |-> r.exc,
                         plan |-> last.plan]
    /\ UNCHANGED <<data, disk, hashfn, httpVars, saveFails, planVars, deployVars>>

RoundTripInit ==
    /\ data = InitialDoc
    /\ disk = [state |-> "ok", doc |-> InitialDoc]
    /\ hashfn = <<>>
    /\ \E p \in DeploymentPlans :
          last = [op |-> "plan", name |-> <<>>, exc |-> "none", plan |-> p]
    /\ saveFails = 0
    /\ HttpIdle
    /\ PlanIdle
    /\ DeployIdle

RoundTripNext ==
    \/ ToDict
    \/ FromDict

SpecRoundTrip == RoundTripInit /\ [][RoundTripNext]_vars

\* C37: from_dict of the to_dict of a plan raises nothing and returns a plan
\* equal to it: the same provider, and the same entries in the same order.
C37_RoundTrip ==
    last.op = "from_dict"
    => /\ last.exc = "none"
       /\ last.ret.provider = last.plan.provider
       /\ Len(last.ret.services) = Len(last.plan.services)
       /\ \A i \in 1..Len(last.plan.services) :
             last.ret.services[i] = last.plan.services[i]

\* a plan of two different entries, the first of a provider that is not the
\* plan's, has made the round trip
C37_Witness ==
    /\ last.op = "from_dict"
    /\ Len(last.plan.services) = 2
    /\ last.plan.services[1] # last.plan.services[2]
    /\ last.plan.services[1].provider # last.plan.provider
    /\ last.ret = last.plan

----------------------------------------------------------------------------
(* The start phase of deploy_fleet on plans of more services than permits  *)

\* bound of the plans whose services are started
MaxStarts == 7

StartName(i) == <<"s", DigitChars[i + 1]>>

\* a plan of n services as the planner makes it
StartPlan(n) ==
    [i \in 1..n |->
        [name |-> StartName(i), profile |-> acc1, location |-> LA,
         country |-> CountryA, port |-> 20000 + (i - 1), provider |-> prov]]

\* the document after the loop that creates the services: the add of the
\* second entry failed, the other services are stored
StartDoc(n) ==
    [InitialDoc EXCEPT !.services =
        [nm \in {StartName(i) : i \in (1..n) \ {2}} |->
            LET i == CHOOSE j \in 1..n : StartName(j) = nm
            IN  to_compose_service(
                   VPNService(nm, 20000 + (i - 1), prov, acc1, LA,
                              << <<VPN_SERVICE_PROVIDER, prov>>,
                                 <<SERVER_CITIES, LA>> >>,
                              [k \in {"vpn.profile"} |-> acc1],
                              DEFAULT_CONTROL_PORT_START + i))]]

\* deploy_fleet at the end of its loop over the plan
StartInit ==
    /\ \E n \in 1..MaxStarts :
          /\ plan = StartPlan(n)
          /\ data = StartDoc(n)
          /\ di = n + 1
          /\ addOk = [i \in 1..n |-> i # 2]
          /\ deployed = IF n >= 2 THEN n - 1 ELSE n
          /\ failed = IF n >= 2 THEN 1 ELSE 0
          /\ errors = IF n >= 2
                      THEN <<[name |-> StartName(2), exc |-> "OSError"]>>
                      ELSE <<>>
          /\ saveFails = IF n >= 2 THEN 1 ELSE 0
    /\ disk = [state |-> "ok", doc |-> data]
    /\ hashfn = <<>>
    /\ last = [op |-> "none", name |-> <<>>, exc |-> "none"]
    /\ HttpIdle
    /\ cfg = NoConfig
    /\ catalog = <<>>
    /\ ppc = "idle"
    /\ ci = 0
    /\ all_cities = <<>>
    /\ FleetManagerInit
    /\ current_port = 0
    /\ dpc = "adding"
    /\ parallel \in BOOLEAN
    /\ taskpc = <<>>
    /\ sem = 0
    /\ runtime = {}
    /\ result = <<>>

StartNext ==
    \/ DeployStartPhase
    \/ \E i \in 1..Len(taskpc) : StartServiceBegin(i)
    \/ \E i \in 1..Len(taskpc), ok \in BOOLEAN : StartServiceCreated(i, ok)
    \/ \E i \in 1..Len(taskpc), ok \in BOOLEAN : StartServiceStarted(i, ok)
    \/ \E i \in 1..Len(taskpc) : SequentialBegin(i)
    \/ \E i \in 1..Len(taskpc), ok \in BOOLEAN : SequentialCreated(i, ok)
    \/ \E i \in 1..Len(taskpc), ok \in BOOLEAN : SequentialStarted(i, ok)
    \/ DeployReturn

SpecStart == StartInit /\ [][StartNext]_vars

\* start task i can take a step: it can begin (in parallel mode when the
\* tasks before it have begun and a permit is left, in sequential mode when
\* the services before it are done), or the call it handed to a thread ends
CanAdvance(i) ==
    /\ dpc = "starting"
    /\ i <= Len(taskpc)
    /\ \/ taskpc[i] \in {"creating", "starting"}
       \/ /\ taskpc[i] = "pending"
          /\ IF parallel
             THEN /\ \A j \in 1..(i - 1) : taskpc[j] # "pending"
                  /\ CanAcquire(sem)
             ELSE \A j \in 1..(i - 1) : taskpc[j] = "done"

\* a step of start task i
TaskAdvance(i) ==
    /\ CanAdvance(i)
    /\ \E pc \in {"creating", "starting", "done"} :
          taskpc' = [taskpc EXCEPT ![i] = pc]

\* the event loop runs every task that can run, and a call handed to a
\* thread returns or raises
SpecStartFair ==
    /\ SpecStart
    /\ WF_vars(DeployStartPhase)
    /\ \A i \in 1..(MaxStarts + 1) : WF_taskpc(TaskAdvance(i))
    /\ WF_vars(DeployReturn)

----------------------------------------------------------------------------
(* http_client.py: HTTPClient.request                                      *)

\* largest RetryPolicy.attempts of the requests
MaxAttempts == 3

\* RetryPolicy.attempts is an int that nothing validates
AttemptsValues == (-2)..MaxAttempts

\* how a send ends: a response that is decoded, an aiohttp.ClientError (an
\* error status from raise_for_status, a connection error), or an exception
\* that is not a ClientError (the total timeout of the session raises
\* asyncio.TimeoutError, a body that is not JSON raises ValueError)
ClientErrors == {"ClientResponseError", "ClientConnectionError"}
OtherErrors == {"TimeoutError", "ValueError"}
SendResults == {"ok"} \cup ClientErrors \cup OtherErrors

\* request is called: _ensure_session has made the session
HttpStart ==
    /\ hpc = "start"
    /\ hpc' = "loop"
    /\ UNCHANGED <<attempts, attempt, sent, response, storeVars, planVars,
                   deployVars>>

\* for attempt in range(1, attempts + 2): the next attempt, or the end of
\* the range, after which the function ends without a return statement
HttpLoop ==
    /\ hpc = "loop"
    /\ IF attempt + 1 < attempts + 2
       THEN /\ attempt' = attempt + 1
            /\ hpc' = "send"
            /\ UNCHANGED response
       ELSE /\ hpc' = "returned"
            /\ response' = "None"
            /\ UNCHANGED attempt
    /\ UNCHANGED <<attempts, sent, storeVars, planVars, deployVars>>

\* a send after which a decoded response does not end the request
HttpSend_no_return(res) ==
    /\ hpc = "send"
    /\ sent' = Append(sent, res)
    /\ hpc' = IF res = "ok" THEN "sleep"
              ELSE IF res \in OtherErrors THEN "escaped"
              ELSE IF attempt > attempts THEN "raised" ELSE "sleep"
    /\ response' = IF res = "ok" THEN "body" ELSE response
    /\ UNCHANGED <<attempts, attempt, storeVars, planVars, deployVars>>

\* the body of the loop: the send returns the decoded body; a ClientError is
\* raised as HTTPClientError after the last attempt and is followed by a
\* sleep before that; any other exception leaves request as it is
HttpSend(res) ==
    /\ hpc = "send"
    /\ sent' = Append(sent, res)
    /\ hpc' = IF res = "ok" THEN "returned"
              ELSE IF res \in OtherErrors THEN "escaped"
              ELSE IF attempt > attempts THEN "raised" ELSE "sleep"
    /\ response' = IF res = "ok" THEN "body" ELSE response
    /\ UNCHANGED <<attempts, attempt, storeVars, planVars, deployVars>>

\* await asyncio.sleep(backoff * attempt) is over
HttpSleep ==
    /\ hpc = "sleep"
    /\ hpc' = "loop"
    /\ UNCHANGED <<attempts, attempt, sent, response, storeVars, planVars,
                   deployVars>>

\* a client of any retry policy, and a call of request on it
HttpInit ==
    /\ data = InitialDoc
    /\ disk = [state |-> "ok", doc |-> InitialDoc]
    /\ hashfn = <<>>
    /\ last = [op |-> "none", name |-> <<>>, exc |-> "none"]
    /\ saveFails = 0
    /\ PlanIdle
    /\ DeployIdle
    /\ hpc = "start"
    /\ attempts \in AttemptsValues
    /\ attempt = 0
    /\ sent = <<>>
    /\ response = "None"

HttpNext ==
    \/ HttpStart
    \/ HttpLoop
    \/ \E res \in SendResults : HttpSend(res)
    \/ HttpSleep

SpecHttp == HttpInit /\ [][HttpNext]_vars

\* the coroutine runs on once it is awaited: every send ends, with a
\* response or an exception, and every sleep ends
SpecHttpFair == SpecHttp /\ WF_vars(HttpNext)

\* request has ended: it returned, it raised HTTPClientError, or another
\* exception left it
HttpEnded == hpc \in {"returned", "raised", "escaped"}

\* C39: a request under a retry policy of n >= 0 attempts sends at most
\* n + 1 times, a send that got a response is its last send and the request
\* returns after it, and the request ends, also when every send fails with
\* a client error.
C39_BoundedRetries ==
    /\ [](attempts >= 0
          => /\ Len(sent) <= attempts + 1
             /\ \A i \in 1..Len(sent) :
                   sent[i] = "ok" => (i = Len(sent) /\ hpc = "returned"))
    /\ (attempts >= 0) ~> HttpEnded

\* every send of a request with two retries failed with a client error, and
\* the request ended after the third
C39_Witness ==
    /\ attempts = 2
    /\ Len(sent) = 3
    /\ \A i \in 1..3 : sent[i] \in ClientErrors
    /\ hpc = "raised"

\* C40: whatever the retry policy, a request that has ended has returned the
\* decoded body of a response it received, or has raised HTTPClientError
\* after its last send failed; it has not returned without a response.
C40_TwoOutcomes ==
    HttpEnded
    => \/ /\ hpc = "returned"
          /\ response = "body"
          /\ sent # <<>>
          /\ sent[Len(sent)] = "ok"
       \/ /\ hpc = "raised"
          /\ sent # <<>>
          /\ sent[Len(sent)] \in ClientErrors

----------------------------------------------------------------------------
(* Claims about deploy                                                     *)

\* C1: when deploy returns after an add_service failed, the store holds none
\* of the services this call had added before the failure.
C1_StoreRolledBack ==
    dpc = "returned"
    => \A i \in 1..Len(plan) :
          (addOk[i] /\ \E j \in (i + 1)..Len(plan) : ~addOk[j])
          => plan[i].name \notin DOMAIN data.services

\* the messages of the entries whose add failed, in plan order
RECURSIVE FailedNames(_, _)
FailedNames(services, added) ==
    IF added = <<>> THEN <<>>
    ELSE IF Head(added) THEN FailedNames(Tail(services), Tail(added))
    ELSE <<Head(services).name>> \o FailedNames(Tail(services), Tail(added))

\* C9: an add_service that fails adds one error message and one to failed,
\* and deploy goes on to the next entry; on return deployed + failed is the
\* number of plan entries and errors has one message per failed entry, in
\* plan order.
C9_DeployContinues ==
    /\ [](dpc = "adding" => deployed + failed = di - 1)
    /\ [](dpc \in {"starting", "returned"}
             => /\ deployed + failed = Len(plan)
                /\ Len(errors) = failed
                /\ [i \in 1..Len(errors) |-> errors[i].name]
                      = FailedNames(plan, addOk))
    /\ [](dpc = "returned"
             => /\ result.deployed + result.failed = Len(plan)
                /\ result.errors = errors
                /\ result.failed = Len(result.errors))
    /\ [][ (dpc = "adding" /\ di' # di)
           => /\ di' = di + 1
              /\ IF last'.exc = "none"
                 THEN deployed' = deployed + 1 /\ failed' = failed
                      /\ errors' = errors
                 ELSE deployed' = deployed /\ failed' = failed + 1
                      /\ errors' = Append(errors, [name |-> plan[di].name,
                                                   exc |-> last'.exc]) ]_vars

\* deploy has returned from a plan whose first add failed and whose second
\* add succeeded
C9_Witness ==
    /\ dpc = "returned"
    /\ addOk = <<FALSE, TRUE>>
    /\ result.deployed = 1
    /\ result.failed = 1

\* the names of the entries whose add succeeded, in plan order
RECURSIVE AddedNames(_, _)
AddedNames(services, added) ==
    IF added = <<>> THEN <<>>
    ELSE IF Head(added)
    THEN <<Head(services).name>> \o AddedNames(Tail(services), Tail(added))
    ELSE AddedNames(Tail(services), Tail(added))

\* C13: the services of the DeploymentResult are exactly the names of the
\* plan entries that were deployed, none of an entry counted as failed.
C13_ResultListsDeployed ==
    dpc = "returned" => result.services = AddedNames(plan, addOk)

\* C10: a container is created or started for a name only if a plan entry of
\* that name was added to the store by this deploy call.
C10_StartsOnlyAdded ==
    \A c \in runtime :
        \E i \in 1..Len(addOk) : addOk[i] /\ plan[i].name = c.name

\* the start tasks that are inside the create-and-start section
InProgress == {i \in 1..Len(taskpc) : taskpc[i] \in {"creating", "starting"}}

\* C11: in a parallel deploy at most 5 service starts are inside the
\* create-and-start section at the same time, whatever the number of
\* services.
C11_BoundedConcurrency ==
    (dpc = "starting" /\ parallel)
    => /\ Cardinality(InProgress) <= 5
       /\ sem >= 0
       /\ sem + Cardinality(InProgress) = MAX_CONCURRENT_STARTS

\* five starts are in progress and other services wait for a permit
C11_Witness ==
    /\ dpc = "starting"
    /\ parallel
    /\ Cardinality(InProgress) = 5
    /\ \E i \in 1..Len(taskpc) : taskpc[i] = "pending"

CreateCalled(name) == [op |-> "create", name |-> name] \in runtime
StartCalled(name) == [op |-> "start", name |-> name] \in runtime

\* C12: a create or a start that raises ends the start of that service
\* only: every service that is in the store is still handed to the runtime,
\* every start ends, every permit is given back, and deploy returns a
\* DeploymentResult.
C12_StartsComplete ==
    /\ (dpc = "adding") ~> (dpc = "returned")
    /\ [](dpc = "returned"
            => /\ \A i \in 1..Len(taskpc) : taskpc[i] = "done"
               /\ parallel => sem = MAX_CONCURRENT_STARTS
               /\ \A i \in 1..Len(taskpc) :
                     LookupOk(TaskName(i)) => CreateCalled(TaskName(i))
               /\ result = DeploymentResult(deployed, failed,
                                            service_names(plan), errors))
    /\ [][ \A i \in 1..Len(taskpc) :
              (taskpc[i] \in {"creating", "starting"} /\ taskpc'[i] = "done")
              => /\ dpc' = dpc
                 /\ \A j \in (1..Len(taskpc)) \ {i} : taskpc'[j] = taskpc[j]
                 /\ parallel => sem' = sem + 1 ]_vars

\* deploy has returned from a plan of more services than permits; the
\* create of the first five services raised and the last service was
\* started
C12_Witness ==
    /\ dpc = "returned"
    /\ parallel
    /\ Len(plan) = MaxStarts
    /\ \A i \in {1, 3, 4, 5, 6} :
          CreateCalled(StartName(i)) /\ ~StartCalled(StartName(i))
    /\ StartCalled(StartName(MaxStarts))

StopCalled(name) == [op |-> "stop", name |-> name] \in runtime
RemoveCalled(name) == [op |-> "remove", name |-> name] \in runtime

\* C21: when deploy returns after an add_service failed, the runtime has
\* received stop and remove for a service this call had added before the
\* failure if and only if a start was made for that service in this call.
C21_RollbackRuntime ==
    dpc = "returned"
    => \A i \in 1..Len(plan) :
          (addOk[i] /\ \E j \in (i + 1)..Len(plan) : ~addOk[j])
          => ((StopCalled(plan[i].name) /\ RemoveCalled(plan[i].name))
              <=> StartCalled(plan[i].name))

\* C22: no step of deploy removes or changes a service that is in the
\* store: every service of the document is in the document after the step
\* with the same definition, and so is every service of the file when the
\* file is written whole, whether the entry at hand is added, fails or has
\* the name of a service that is already there.
C22_DeployKeepsServices ==
    [][ /\ \A n \in DOMAIN data.services :
              /\ n \in DOMAIN data'.services
              /\ data'.services[n] = data.services[n]
        /\ (disk.state = "ok" /\ disk'.state = "ok")
           => \A n \in DOMAIN disk.doc.services :
                 /\ n \in DOMAIN disk'.doc.services
                 /\ disk'.doc.services[n] = disk.doc.services[n] ]_vars

\* deploy has returned from a plan of two entries, one of them with the name
\* of the service of the earlier run: that add failed, the other entry was
\* added, and the earlier service is in the store as it was
C22_Witness ==
    /\ dpc = "returned"
    /\ Len(plan) = 2
    /\ \E i, j \in 1..2 :
          /\ plan[i].name = EarlierService.name
          /\ ~addOk[i]
          /\ addOk[j]
          /\ plan[j].name \in DOMAIN data.services
    /\ EarlierService.name \in DOMAIN data.services
    /\ data.services[EarlierService.name] = to_compose_service(EarlierService)
    /\ disk = [state |-> "ok", doc |-> data]

\* C23: deploy handles the plan entries one at a time in plan order, a step
\* that changes the document or the file is the add of the entry at hand,
\* and no call is made to the runtime before every entry has been handled,
\* in parallel and in sequential mode.
C23_PhaseOrder ==
    /\ [](dpc = "adding" => Len(addOk) = di - 1)
    /\ [](runtime # {}
            => /\ dpc \in {"starting", "returned"}
               /\ di = Len(plan) + 1
               /\ Len(addOk) = Len(plan))
    /\ [][ (data' # data \/ disk' # disk)
           => /\ dpc = "adding"
              /\ dpc' = "adding"
              /\ runtime = {}
              /\ runtime' = {}
              /\ di' = di + 1
              /\ last'.op = "add_service"
              /\ last'.name = plan[di].name
              /\ DOMAIN data'.services
                    \subseteq (DOMAIN data.services) \cup {plan[di].name} ]_vars

\* two starts are in progress after both entries of a plan were added
C23_Witness ==
    /\ dpc = "starting"
    /\ parallel
    /\ addOk = <<TRUE, TRUE>>
    /\ Cardinality(InProgress) = 2
    /\ \A i \in 1..2 : CreateCalled(plan[i].name)
    /\ disk = [state |-> "ok", doc |-> data]

\* C24 as stated: while the starts run, no call is made to the store: the
\* document and the file stay as they are and the store gets no call.
C24_StartsNeverAccessStore ==
    [][ dpc = "starting" => (data' = data /\ disk' = disk /\ last' = last) ]_vars

\* C24, amended: while the starts run, no start changes the document or the
\* file; the calls the store gets are the reads of a start that begins,
\* get_service for its name and, when the service is found, get_profile for
\* the profile of that service.
C24_StartsOnlyReadStore ==
    [][ dpc = "starting"
        => /\ data' = data
           /\ disk' = disk
           /\ saveFails' = saveFails
           /\ last' # last => last'.op \in {"get_service", "get_profile"}
           /\ \A i \in 1..Len(taskpc) :
                 (dpc' = "starting" /\ taskpc[i] = "pending"
                    /\ taskpc'[i] # "pending")
                 => IF StartNames(plan)[i] \in DOMAIN data.services
                    THEN /\ last'.op = "get_profile"
                         /\ last'.name
                              = from_compose_service(StartNames(plan)[i],
                                   data.services[StartNames(plan)[i]]).profile
                    ELSE /\ last'.op = "get_service"
                         /\ last'.name = StartNames(plan)[i]
                         /\ last'.exc = "KeyError" ]_vars

\* in a parallel deploy six starts have read the store and five of them are
\* in progress
C24_Witness ==
    /\ dpc = "starting"
    /\ parallel
    /\ last = [op |-> "get_profile", name |-> acc1, exc |-> "none"]
    /\ Cardinality(InProgress) = 5
    /\ taskpc[6] = "creating"

\* the names of the services whose create raised: the create was called and
\* the start that follows a create was not
CreateFailed ==
    {TaskName(i) : i \in {j \in 1..Len(taskpc) :
                             /\ taskpc[j] = "done"
                             /\ CreateCalled(TaskName(j))
                             /\ ~StartCalled(TaskName(j))}}

\* C25: a service whose create or start failed is reported in the result of
\* deploy: the list of errors has a message for it and the failed tally
\* counts it.
C25_StartFailuresReported ==
    dpc = "returned"
    => /\ \A n \in CreateFailed :
             \E k \in 1..Len(result.errors) : result.errors[k].name = n
       /\ result.failed >= Cardinality(CreateFailed)

====
